---- MODULE Spec2Model ----
(***************************************************************************)
(* Model of check_collection.py: one poll of the configured storefronts   *)
(* (main), the diff of the fetched products against the persisted state,  *)
(* the save of the next state and the chunked webhook notification.       *)
(*                                                                         *)
(* Strings are modelled by small values: a handle is a number of          *)
(* 1..NumHandles, a source URL a number of 1..NumSources, a title a       *)
(* number (a source gives all its products one title, TitleAt; the title  *)
(* of an entry of the initial state file is OldTitle).  A text is a       *)
(* sequence of lines; a line is [tag, n, nl]: what it says, the number of *)
(* its characters without the line break, and whether a line break ends   *)
(* it.  The state file is written successfully by every save (the         *)
(* IOError branch of save_state is outside the model).                    *)
(*                                                                         *)
(* Spec is one run of main with a state file that is missing, not JSON or *)
(* a good state, and storefronts that answer with a products array or     *)
(* fail; SpecRuns is run after run, SpecFromEmpty the same from a first   *)
(* run without state file.  SpecFaults adds the state files and the       *)
(* responses of unexpected shape, and the exceptions that then end main   *)
(* (pc = "crashed", raised).  SpecChunk is chunk_text_by_lines called by  *)
(* itself on any text and limit within the bounds.                        *)
(***************************************************************************)
EXTENDS Integers, Sequences, FiniteSets, TLC

\* Largest number of lines of a text given to chunk_text_by_lines by itself.
MaxLines == 3
\* Largest number of characters of such a line, the line break not counted.
MaxLineLen == 4
\* Largest limit given to chunk_text_by_lines by itself.
MaxLimit == 4

\* Number of distinct product handles the storefronts and the state file know.
NumHandles == 1
\* Number of source URLs listed in COLLECTION_URLS.
NumSources == 2

Handles == 1..NumHandles
Sources == 1..NumSources

\* Python's None (unset environment variable, failed fetch).
None == "None"
\* An entry of COLLECTION_URLS that is empty after strip().
Blank == 0
\* Title of the entries of the state file the first run starts from.
OldTitle == 0

VARIABLES
  env,                  \* the environment: DISCORD_WEBHOOK and COLLECTION_URLS
  file,                 \* state.json: [kind, products]
  file0,                \* state.json as it was when the run started
  pc,                   \* position of main
  DISCORD_WEBHOOK,      \* the global of line 8
  urls,                 \* main's urls
  old_products_state,   \* main's old_products_state
  new_state,            \* main's new_state['products']
  new_items_to_notify,  \* main's list of (title, link)
  restocked_to_notify,  \* main's list of (title, link)
  processed_handles,    \* main's processed_handles
  i,                    \* index in urls of the next source of the for loop
  chunks,               \* notify_discord's chunks
  idx,                  \* notify_discord's idx: the next chunk to send
  fetched,              \* log of the calls of fetch_all_products that returned: [url, result]
  posts,                \* log of the calls of requests.post: [idx, chunk, ok]
  reads,                \* number of reads of state.json in this run
  writes,               \* number of writes of state.json in this run
  plan,                 \* results the storefronts return again in this run, or <<>>
  streak,               \* per handle: list entries in its current observed streak
  shopStreak,           \* per handle: list entries in its current storefront streak
  raised,               \* the exception that ended main: [error, line]
  arg_text,             \* chunk_text_by_lines called by itself: its text
  arg_limit             \* chunk_text_by_lines called by itself: its limit

vars == <<env, file, file0, pc, DISCORD_WEBHOOK, urls, old_products_state,
          new_state, new_items_to_notify, restocked_to_notify,
          processed_handles, i, chunks, idx, fetched, posts, reads, writes,
          plan, streak, shopStreak, raised, arg_text, arg_limit>>

----------------------------------------------------------------------------
(* Values *)

\* The empty dict.
EmptyDict == [h \in {} |-> 0]

\* d[k] = v of a Python dict.
Put(d, k, v) == [x \in DOMAIN d \cup {k} |-> IF x = k THEN v ELSE d[x]]

\* A persisted ProductState.
ProductStates ==
  [title : {OldTitle}, available : BOOLEAN, notified_for_available : BOOLEAN]

\* All dicts handle -> ProductState a state file may hold at the start.
ProductDicts == UNION {[D -> ProductStates] : D \in SUBSET Handles}

\* The variants lists a storefront returns for a product.
VariantLists == {<<[available |-> FALSE]>>,
                 <<[available |-> FALSE], [available |-> TRUE]>>}

\* The title source url gives its products: neighbouring sources differ.
TitleAt(url) == 1 + (url % 2)

\* The product record source url returns for handle h.
Product(url, h, variants) ==
  [handle |-> h, title |-> TitleAt(url), variants |-> variants]

\* The products arrays source url may return: every subset of the handles,
\* each handle once, in handle order.
RECURSIVE ProductLists(_, _)
ProductLists(url, h) ==
  IF h > NumHandles THEN {<<>>}
  ELSE LET rest == ProductLists(url, h + 1)
       IN rest \cup {<<Product(url, h, v)>> \o r : v \in VariantLists, r \in rest}

\* What fetch_all_products(url) may return: None (ok = FALSE, line 43) or a
\* products array (line 40).
FetchResults(url) ==
  {[ok |-> FALSE, products |-> <<>>]}
    \cup {[ok |-> TRUE, products |-> l] : l \in ProductLists(url, 1)}

\* No exception has left main.
NoException == [error |-> None, line |-> 0]

\* The exception of class error raised at the line of the source.
Exception(error, line) == [error |-> error, line |-> line]

\* The value of a key a JSON object does not have.
Absent == -1

\* Bodies of a 2xx response that are JSON but not an object with a products
\* array: an object without products, an object whose products is null, a
\* body that is an array, an object whose products is a number.
OddBodies == {"no_products", "products_null", "not_object", "products_not_array"}

\* What such a body raises in main: nothing when line 40 can return;
\* resp.json().get of an array is an AttributeError, which the except of
\* line 41 (RequestException) lets through; a number is returned by line 40
\* and the for of line 97 over it is a TypeError.
BodyRaises(body) ==
  CASE body = "not_object" -> Exception("AttributeError", 40)
    [] body = "products_not_array" -> Exception("TypeError", 97)
    [] OTHER -> NoException

\* What fetch_all_products returns for the bodies it can return for: the
\* default [] of line 40 without products, None when products is null.
BodyResult(body) ==
  IF body = "products_null" THEN [ok |-> FALSE, products |-> <<>>]
  ELSE [ok |-> TRUE, products |-> <<>>]

\* Product records of source url without the key handle or the key title.
OddProducts(url) ==
  {[Product(url, h, v) EXCEPT !.handle = Absent] : h \in Handles, v \in VariantLists}
    \cup {[Product(url, h, v) EXCEPT !.title = Absent] : h \in Handles, v \in VariantLists}

\* What lines 98-99 raise for the product record p: p['handle'] and
\* p['title'] of a missing key are a KeyError.
ProductRaises(p) ==
  IF p.handle = Absent THEN Exception("KeyError", 98)
  ELSE IF p.title = Absent THEN Exception("KeyError", 99)
  ELSE NoException

----------------------------------------------------------------------------
(* load_state, lines 10-26 *)

\* A JSON value that is not an object, where an object is expected.
NotMapping == [k \in {0} |-> 0]

\* isinstance(v, dict) of a value read from the state file.
IsMapping(v) == DOMAIN v \subseteq Handles

\* Lines 18-21: entries without notified_for_available get it, set to False.
Backfill(products) ==
  [h \in DOMAIN products |->
     IF "notified_for_available" \in DOMAIN products[h] THEN products[h]
     ELSE [title |-> products[h].title, available |-> products[h].available,
           notified_for_available |-> FALSE]]

\* Fault: load_state that never reads the file.
load_state_ignoring_file(f) == [products |-> EmptyDict]

\* The state load_state returns for the file f, when it returns a mapping:
\* the file's state (line 22; a products value that is not a mapping is left
\* as it is, line 18), or the empty state (lines 25, 26).
load_state(f) ==
  IF f.kind = "good" THEN [products |-> Backfill(f.products)]
  ELSE IF f.kind = "products_not_mapping" THEN [products |-> NotMapping]
  ELSE [products |-> EmptyDict]

\* What lines 80-82 raise for the file f: open or read of a file that
\* cannot be read is an OSError, which the except of line 23
\* (JSONDecodeError) lets through; a top level that is an array is returned
\* by line 22 and state.get of line 82 is an AttributeError.
LoadRaises(f) ==
  CASE f.kind = "unreadable" -> Exception("OSError", 14)
    [] f.kind = "not_mapping" -> Exception("AttributeError", 82)
    [] OTHER -> NoException

----------------------------------------------------------------------------
(* The diff of one product, lines 97-143 *)

\* Line 100: any(v.get('available') for v in p.get('variants', [])).
CurrentAvail(p) == \E k \in DOMAIN p.variants : p.variants[k].available

\* Line 109.
OldAvail(old, handle) ==
  IF handle \in DOMAIN old THEN old[handle].available ELSE FALSE

\* Line 110.
OldNotified(old, handle) ==
  IF handle \in DOMAIN old THEN old[handle].notified_for_available ELSE FALSE

\* Line 119.
IsNewItem(old, handle) == handle \notin DOMAIN old

\* Fault: line 120 without the test of old_avail.
IsRestockTransitionAnyAvailable(old_avail, current_avail) == current_avail

\* Fault: line 120 with the transition the wrong way round.
IsRestockTransitionInverted(old_avail, current_avail) == old_avail /\ ~current_avail

\* Line 120.
IsRestockTransition(old_avail, current_avail) == ~old_avail /\ current_avail

\* Lines 124-128: the product is appended to new_items_to_notify.
NotifyNew(is_new_item, current_avail, old_notified) ==
  is_new_item /\ current_avail /\ ~old_notified

\* Fault: lines 130-134 without the test of the flag (line 132).
NotifyRestockUnguarded(is_new_item, is_restock_transition, current_avail, old_notified) ==
  ~(is_new_item /\ current_avail) /\ is_restock_transition

\* Lines 130-134: the product is appended to restocked_to_notify.
NotifyRestock(is_new_item, is_restock_transition, current_avail, old_notified) ==
  ~(is_new_item /\ current_avail) /\ is_restock_transition /\ ~old_notified

\* Fault: lines 136-141 without line 138.
NewNotifiedNeverSet(old_notified, current_avail, should_notify) ==
  IF ~current_avail THEN FALSE ELSE old_notified

\* Fault: lines 136-141 without line 141.
NewNotifiedNeverReset(old_notified, current_avail, should_notify) ==
  IF current_avail /\ should_notify THEN TRUE ELSE old_notified

\* Lines 116, 136-141: the flag of the new ProductState.
NewNotified(old_notified, current_avail, should_notify) ==
  IF current_avail /\ should_notify THEN TRUE
  ELSE IF ~current_avail THEN FALSE
  ELSE old_notified

\* Fault: line 143 keeps the entry an earlier source of the run wrote.
StoreProductFirstWins(products, handle, new_p_state) ==
  IF handle \in DOMAIN products THEN products ELSE Put(products, handle, new_p_state)

\* Fault: line 143 indented into the branch of line 139.
StoreProductOnlyUnavailable(products, handle, new_p_state) ==
  IF new_p_state.available THEN products ELSE Put(products, handle, new_p_state)

\* Line 143: new_state['products'][handle] = new_p_state.
StoreProduct(products, handle, new_p_state) == Put(products, handle, new_p_state)

\* Lines 127, 133: the (title, link) pair; the link is url and handle.
Entry(title, url, handle) == <<title, <<url, handle>>>>

\* One iteration of the loop of line 97 on the accumulated
\* [products, new_items, restocked, processed].
DiffProduct(old, acc, url, p) ==
  LET handle == p.handle
      title == p.title
      current_avail == CurrentAvail(p)
      old_avail == OldAvail(old, handle)
      old_notified == OldNotified(old, handle)
      is_new_item == IsNewItem(old, handle)
      is_restock == IsRestockTransition(old_avail, current_avail)
      to_new == NotifyNew(is_new_item, current_avail, old_notified)
      to_restock == NotifyRestock(is_new_item, is_restock, current_avail, old_notified)
      new_p_state ==
        [title |-> title, available |-> current_avail,
         notified_for_available |->
           NewNotified(old_notified, current_avail, to_new \/ to_restock)]
  IN [products |-> StoreProduct(acc.products, handle, new_p_state),
      new_items |-> IF to_new THEN Append(acc.new_items, Entry(title, url, handle))
                    ELSE acc.new_items,
      restocked |-> IF to_restock THEN Append(acc.restocked, Entry(title, url, handle))
                    ELSE acc.restocked,
      processed |-> acc.processed \cup {handle}]

\* The loop of line 97 over the products of one source.
RECURSIVE DiffSource(_, _, _, _)
DiffSource(old, acc, url, products) ==
  IF products = <<>> THEN acc
  ELSE DiffSource(old, DiffProduct(old, acc, url, Head(products)), url, Tail(products))

----------------------------------------------------------------------------
(* The carry-over of the products not found, lines 145-154 *)

\* Fault: the old entry carried over as it is.
CarriedOverUnchanged(old_p_state, handle) == old_p_state

\* Fault: line 152 keeps the old flag.
CarriedOverKeepingFlag(old_p_state, handle) ==
  [title |-> IF "title" \in DOMAIN old_p_state THEN old_p_state.title ELSE handle,
   available |-> FALSE,
   notified_for_available |-> old_p_state.notified_for_available]

\* Lines 149-153.
CarriedOver(old_p_state, handle) ==
  [title |-> IF "title" \in DOMAIN old_p_state THEN old_p_state.title ELSE handle,
   available |-> FALSE,
   notified_for_available |-> FALSE]

\* Fault: the loop of line 145 left out.
NotFoundNone(old, processed) == {}

\* Line 146: the handles of the old state the loop carries over.
NotFound(old, processed) == DOMAIN old \ processed

\* The loop of line 145.
CarryOver(old, products, processed) ==
  [h \in DOMAIN products \cup NotFound(old, processed) |->
     IF h \in NotFound(old, processed) THEN CarriedOver(old[h], h) ELSE products[h]]

----------------------------------------------------------------------------
(* The message, lines 162-171, as the lines splitlines(keepends=True) gives *)

Line(kind, title, link, n) == [tag |-> <<kind, title, link>>, n |-> n, nl |-> TRUE]

\* Number of characters of a title, of a URL and of a handle.
TitleLen(title) == 1900 + title
UrlLen(url) == 20 + url
HandleLen(handle) == 6 + handle

\* Lines 166, 169: f"- {t} (<{link}>)" with link = f"{url}/products/{handle}".
EntryLine(kind, e) ==
  Line(kind, e[1], e[2], 2 + TitleLen(e[1]) + 3 + UrlLen(e[2][1]) + 10 + HandleLen(e[2][2]) + 2)

EntryLines(kind, entries) == [k \in DOMAIN entries |-> EntryLine(kind, entries[k])]

\* The line break that ends the last line is not part of the message.
NoFinalBreak(lines) ==
  [k \in DOMAIN lines |->
     IF k = Len(lines) THEN [lines[k] EXCEPT !.nl = FALSE] ELSE lines[k]]

\* Lines 163-171: parts joined by "\n".  parts[0] ends with a line break, so
\* an empty line follows it; the heading of the restocked section starts
\* with one.
BuildMessage(new_items, restocked) ==
  NoFinalBreak(
    <<Line("alert", 0, <<0, 0>>, 19), Line("checked", 0, <<0, 0>>, 32),
      Line("blank", 0, <<0, 0>>, 0)>>
    \o (IF new_items # <<>>
        THEN <<Line("new_heading", 0, <<0, 0>>, 19)>> \o EntryLines("new", new_items)
        ELSE <<>>)
    \o (IF restocked # <<>>
        THEN <<Line("blank", 0, <<0, 0>>, 0), Line("restocked_heading", 0, <<0, 0>>, 16)>>
               \o EntryLines("restocked", restocked)
        ELSE <<>>))

----------------------------------------------------------------------------
(* chunk_text_by_lines, lines 45-53 *)

\* The webhook's message size limit, the default of line 45.
DiscordLimit == 2000

\* len(line), the line break included.
LineLen(line) == line.n + (IF line.nl THEN 1 ELSE 0)

\* len(cur) of a string made of the lines cur.
RECURSIVE StrLen(_)
StrLen(cur) == IF cur = <<>> THEN 0 ELSE LineLen(Head(cur)) + StrLen(Tail(cur))

\* A line of white space only.
IsBlank(line) == line.tag[1] = "blank"

RECURSIVE LStrip(_)
LStrip(cur) ==
  IF cur # <<>> /\ IsBlank(Head(cur)) THEN LStrip(Tail(cur)) ELSE cur

RECURSIVE RStrip(_)
RStrip(cur) ==
  IF cur # <<>> /\ IsBlank(cur[Len(cur)]) THEN RStrip(SubSeq(cur, 1, Len(cur) - 1))
  ELSE NoFinalBreak(cur)

\* cur.strip(): the white space at both ends goes, the lines of white space
\* and the final line break included.
Strip(cur) == RStrip(LStrip(cur))

\* Fault: line 49 without len(cur).
OverflowsLineOnly(cur, line, limit) == LineLen(line) > limit

\* Line 49: the line does not fit in the chunk that is being filled.
Overflows(cur, line, limit) == StrLen(cur) + LineLen(line) > limit

\* The loop of lines 48-51 from position k, with the chunks and cur so far,
\* then line 52.
RECURSIVE ChunkLoop(_, _, _, _, _)
ChunkLoop(lines, limit, k, chunks_, cur) ==
  IF k > Len(lines)
  THEN IF StrLen(cur) > 0 THEN Append(chunks_, Strip(cur)) ELSE chunks_
  ELSE IF Overflows(cur, lines[k], limit)
       THEN ChunkLoop(lines, limit, k + 1, Append(chunks_, Strip(cur)), <<lines[k]>>)
       ELSE ChunkLoop(lines, limit, k + 1, chunks_, Append(cur, lines[k]))

chunk_text_by_lines(text, limit) == ChunkLoop(text, limit, 1, <<>>, <<>>)

----------------------------------------------------------------------------
(* The run of main *)

\* Python's truth value of a string or None.
Truthy(s) == s # None /\ s # ""

\* Line 76: the entries of COLLECTION_URLS that are not empty after strip().
ParseUrls(setting) == SelectSeq(setting, LAMBDA u : u # Blank)

\* Fault: line 77 with 'and' for 'or'.
ConfigOkEither(webhook, urls_) == Truthy(webhook) \/ urls_ # <<>>

\* Line 77: the run goes on only with a webhook and at least one URL.
ConfigOk(webhook, urls_) == ~(~Truthy(webhook) \/ urls_ = <<>>)

\* The values of COLLECTION_URLS: unset or empty, only separators, and the
\* sources 1..NumSources with a trailing separator.
UrlSettings ==
  {<<Blank>>, <<Blank, Blank>>, [k \in 1..(NumSources + 1) |-> IF k <= NumSources THEN k ELSE Blank]}

\* The state files a run may find: none, one that is not JSON, a good one.
Files ==
  {[kind |-> "missing", products |-> EmptyDict],
   [kind |-> "corrupt", products |-> EmptyDict]}
    \cup {[kind |-> "good", products |-> d] : d \in ProductDicts}

\* State files that exist and are not a JSON object with a products mapping:
\* a file that cannot be read, a JSON array, an object whose products is an
\* array.
OddFiles ==
  {[kind |-> "unreadable", products |-> EmptyDict],
   [kind |-> "not_mapping", products |-> EmptyDict],
   [kind |-> "products_not_mapping", products |-> EmptyDict]}

\* The locals of main and notify_discord before the run has set them.
FreshRun ==
  /\ pc = "main"
  /\ DISCORD_WEBHOOK = None
  /\ urls = <<>>
  /\ old_products_state = EmptyDict
  /\ new_state = EmptyDict
  /\ new_items_to_notify = <<>>
  /\ restocked_to_notify = <<>>
  /\ processed_handles = {}
  /\ i = 1
  /\ chunks = <<>>
  /\ idx = 1
  /\ fetched = <<>>
  /\ posts = <<>>
  /\ reads = 0
  /\ writes = 0
  /\ raised = NoException

Init ==
  /\ env \in [DISCORD_WEBHOOK : {None, "", "hook"}, COLLECTION_URLS : UrlSettings]
  /\ file \in Files
  /\ file0 = file
  /\ FreshRun
  /\ plan = <<>>
  /\ streak = [h \in Handles |-> 0]
  /\ shopStreak = [h \in Handles |-> 0]
  /\ arg_text = <<>>
  /\ arg_limit = DiscordLimit

\* The start of a run that may also find a state file of OddFiles.
InitFaults ==
  /\ env \in [DISCORD_WEBHOOK : {None, "", "hook"}, COLLECTION_URLS : UrlSettings]
  /\ file \in Files \cup OddFiles
  /\ file0 = file
  /\ FreshRun
  /\ plan = <<>>
  /\ streak = [h \in Handles |-> 0]
  /\ shopStreak = [h \in Handles |-> 0]
  /\ arg_text = <<>>
  /\ arg_limit = DiscordLimit

\* Lines 73-78 when the configuration is incomplete: main prints and returns.
ConfigError ==
  /\ pc = "main"
  /\ ~ConfigOk(env.DISCORD_WEBHOOK, ParseUrls(env.COLLECTION_URLS))
  /\ DISCORD_WEBHOOK' = env.DISCORD_WEBHOOK
  /\ urls' = ParseUrls(env.COLLECTION_URLS)
  /\ pc' = "done"
  /\ UNCHANGED <<env, file, file0, old_products_state, new_state,
                 new_items_to_notify, restocked_to_notify, processed_handles, i,
                 chunks, idx, fetched, posts, reads, writes, plan, streak, shopStreak, raised,
                 arg_text, arg_limit>>

\* Lines 73-78 when the configuration is complete.
Configure ==
  /\ pc = "main"
  /\ ConfigOk(env.DISCORD_WEBHOOK, ParseUrls(env.COLLECTION_URLS))
  /\ DISCORD_WEBHOOK' = env.DISCORD_WEBHOOK
  /\ urls' = ParseUrls(env.COLLECTION_URLS)
  /\ pc' = "load"
  /\ UNCHANGED <<env, file, file0, old_products_state, new_state,
                 new_items_to_notify, restocked_to_notify, processed_handles, i,
                 chunks, idx, fetched, posts, reads, writes, plan, streak, shopStreak, raised,
                 arg_text, arg_limit>>

\* Lines 80-87.
LoadState ==
  /\ pc = "load"
  /\ LoadRaises(file) = NoException
  /\ reads' = reads + 1
  /\ old_products_state' = load_state(file).products
  /\ new_state' = EmptyDict
  /\ new_items_to_notify' = <<>>
  /\ restocked_to_notify' = <<>>
  /\ processed_handles' = {}
  /\ i' = 1
  /\ pc' = (IF urls = <<>> THEN "reconcile" ELSE "fetch")
  /\ UNCHANGED <<env, file, file0, DISCORD_WEBHOOK, urls, chunks, idx, fetched,
                 posts, writes, plan, streak, shopStreak, raised,
                 arg_text, arg_limit>>

\* Lines 80-82 when load_state or state.get raises: the exception leaves
\* main.
LoadStateRaises ==
  /\ pc = "load"
  /\ LoadRaises(file) # NoException
  /\ reads' = reads + 1
  /\ raised' = LoadRaises(file)
  /\ pc' = "crashed"
  /\ UNCHANGED <<env, file, file0, DISCORD_WEBHOOK, urls, old_products_state,
                 new_state, new_items_to_notify, restocked_to_notify,
                 processed_handles, i, chunks, idx, fetched, posts, writes, plan,
                 streak, shopStreak, arg_text, arg_limit>>

\* What the storefront of urls[k] may answer: anything, or in a run that
\* polls unchanged storefronts the answer of the run before.
Answers(k) ==
  IF plan = <<>> THEN FetchResults(urls[k]) ELSE {plan[k].result}

\* Fault: the loop of line 89 left after its first source.
AfterSourceFirstOnly(result, k, n) == "reconcile"

\* Fault: line 94 with 'return' for 'continue'.
AfterSourceReturnOnFailure(result, k, n) ==
  IF ~result.ok THEN "done" ELSE IF k < n THEN "fetch" ELSE "reconcile"

\* Where main goes after the iteration for urls[k] of the loop of line 89.
AfterSource(result, k, n) == IF k < n THEN "fetch" ELSE "reconcile"

\* Lines 89-94: the fetch of urls[i] fails, the source is skipped.
FetchFailed ==
  /\ pc = "fetch"
  /\ \E result \in Answers(i) :
       /\ ~result.ok
       /\ fetched' = Append(fetched, [url |-> urls[i], result |-> result])
       /\ pc' = AfterSource(result, i, Len(urls))
  /\ i' = i + 1
  /\ UNCHANGED <<env, file, file0, DISCORD_WEBHOOK, urls, old_products_state,
                 new_state, new_items_to_notify, restocked_to_notify,
                 processed_handles, chunks, idx, posts, reads, writes, plan,
                 streak, shopStreak, raised,
                 arg_text, arg_limit>>

\* Lines 89-143: the fetch of urls[i] succeeds, its products are diffed.
FetchAndDiff ==
  /\ pc = "fetch"
  /\ \E result \in Answers(i) :
       /\ result.ok
       /\ result.products # <<>> => IsMapping(old_products_state)
       /\ fetched' = Append(fetched, [url |-> urls[i], result |-> result])
       /\ pc' = AfterSource(result, i, Len(urls))
       /\ LET acc == DiffSource(old_products_state,
                                [products |-> new_state,
                                 new_items |-> new_items_to_notify,
                                 restocked |-> restocked_to_notify,
                                 processed |-> processed_handles],
                                urls[i], result.products)
          IN /\ new_state' = acc.products
             /\ new_items_to_notify' = acc.new_items
             /\ restocked_to_notify' = acc.restocked
             /\ processed_handles' = acc.processed
  /\ i' = i + 1
  /\ UNCHANGED <<env, file, file0, DISCORD_WEBHOOK, urls, old_products_state,
                 chunks, idx, posts, reads, writes, plan, streak, shopStreak, raised,
                 arg_text, arg_limit>>

\* Lines 89-94 for a 2xx response with a body of OddBodies: main goes on as
\* after a fetch without products or a failed fetch, or the exception
\* leaves main.
FetchOddBody ==
  /\ pc = "fetch"
  /\ \E body \in OddBodies :
       IF BodyRaises(body) = NoException
       THEN /\ fetched' = Append(fetched, [url |-> urls[i], result |-> BodyResult(body)])
            /\ pc' = AfterSource(BodyResult(body), i, Len(urls))
            /\ i' = i + 1
            /\ UNCHANGED raised
       ELSE /\ raised' = BodyRaises(body)
            /\ pc' = "crashed"
            /\ UNCHANGED <<fetched, i>>
  /\ UNCHANGED <<env, file, file0, DISCORD_WEBHOOK, urls, old_products_state,
                 new_state, new_items_to_notify, restocked_to_notify,
                 processed_handles, chunks, idx, posts, reads, writes, plan,
                 streak, shopStreak, arg_text, arg_limit>>

\* Lines 89-143 for a products array that holds, after the first n records,
\* a record of OddProducts: the n records are diffed, then line 98 or 99
\* raises and the exception leaves main.
DiffRaises ==
  /\ pc = "fetch"
  /\ \E result \in FetchResults(urls[i]), odd \in OddProducts(urls[i]) :
       /\ result.ok
       /\ \E n \in 0..Len(result.products) :
            /\ n > 0 => IsMapping(old_products_state)
            /\ LET acc == DiffSource(old_products_state,
                                     [products |-> new_state,
                                      new_items |-> new_items_to_notify,
                                      restocked |-> restocked_to_notify,
                                      processed |-> processed_handles],
                                     urls[i], SubSeq(result.products, 1, n))
               IN /\ new_state' = acc.products
                  /\ new_items_to_notify' = acc.new_items
                  /\ restocked_to_notify' = acc.restocked
                  /\ processed_handles' = acc.processed
            /\ fetched' =
                 Append(fetched,
                        [url |-> urls[i],
                         result |-> [ok |-> TRUE,
                                     products |->
                                       SubSeq(result.products, 1, n) \o <<odd>>
                                         \o SubSeq(result.products, n + 1,
                                                   Len(result.products))]])
       /\ raised' = ProductRaises(odd)
  /\ pc' = "crashed"
  /\ UNCHANGED <<env, file, file0, DISCORD_WEBHOOK, urls, old_products_state, i,
                 chunks, idx, posts, reads, writes, plan, streak, shopStreak,
                 arg_text, arg_limit>>

\* Lines 89-106 when old_products_state is not a mapping and the products
\* array has a first record: its handle is added (line 103), then
\* old_products_state.get of line 106 is an AttributeError that leaves main.
PriorRaises ==
  /\ pc = "fetch"
  /\ ~IsMapping(old_products_state)
  /\ \E result \in Answers(i) :
       /\ result.ok
       /\ result.products # <<>>
       /\ fetched' = Append(fetched, [url |-> urls[i], result |-> result])
       /\ processed_handles' = processed_handles \cup {result.products[1].handle}
  /\ raised' = Exception("AttributeError", 106)
  /\ pc' = "crashed"
  /\ UNCHANGED <<env, file, file0, DISCORD_WEBHOOK, urls, old_products_state,
                 new_state, new_items_to_notify, restocked_to_notify, i, chunks,
                 idx, posts, reads, writes, plan, streak, shopStreak, arg_text,
                 arg_limit>>

\* Line 145 when old_products_state is not a mapping:
\* old_products_state.items() is an AttributeError that leaves main.
ReconcileRaises ==
  /\ pc = "reconcile"
  /\ ~IsMapping(old_products_state)
  /\ raised' = Exception("AttributeError", 145)
  /\ pc' = "crashed"
  /\ UNCHANGED <<env, file, file0, DISCORD_WEBHOOK, urls, old_products_state,
                 new_state, new_items_to_notify, restocked_to_notify,
                 processed_handles, i, chunks, idx, fetched, posts, reads, writes,
                 plan, streak, shopStreak, arg_text, arg_limit>>

\* Lines 145-154.
Reconcile ==
  /\ pc = "reconcile"
  /\ IsMapping(old_products_state)
  /\ new_state' = CarryOver(old_products_state, new_state, processed_handles)
  /\ pc' = "save"
  /\ UNCHANGED <<env, file, file0, DISCORD_WEBHOOK, urls, old_products_state,
                 new_items_to_notify, restocked_to_notify, processed_handles, i,
                 chunks, idx, fetched, posts, reads, writes, plan, streak, shopStreak, raised,
                 arg_text, arg_limit>>

\* Lines 156-157 and save_state, lines 28-31.
SaveState ==
  /\ pc = "save"
  /\ file' = [kind |-> "good", products |-> new_state]
  /\ writes' = writes + 1
  /\ pc' = "report"
  /\ UNCHANGED <<env, file0, DISCORD_WEBHOOK, urls, old_products_state, new_state,
                 new_items_to_notify, restocked_to_notify, processed_handles, i,
                 chunks, idx, fetched, posts, reads, plan, streak, shopStreak, raised,
                 arg_text, arg_limit>>

\* Lines 159-160: nothing to notify about.
NothingToReport ==
  /\ pc = "report"
  /\ new_items_to_notify = <<>> /\ restocked_to_notify = <<>>
  /\ pc' = "done"
  /\ UNCHANGED <<env, file, file0, DISCORD_WEBHOOK, urls, old_products_state,
                 new_state, new_items_to_notify, restocked_to_notify,
                 processed_handles, i, chunks, idx, fetched, posts, reads, writes,
                 plan, streak, shopStreak, raised,
                 arg_text, arg_limit>>

\* Lines 161-172 and notify_discord up to line 60: the message is built and
\* chunked; without a webhook notify_discord returns (lines 56-58).
Report ==
  /\ pc = "report"
  /\ ~(new_items_to_notify = <<>> /\ restocked_to_notify = <<>>)
  /\ IF ~Truthy(DISCORD_WEBHOOK)
     THEN chunks' = <<>> /\ pc' = "done"
     ELSE LET cs == chunk_text_by_lines(
                      BuildMessage(new_items_to_notify, restocked_to_notify),
                      DiscordLimit)
          IN chunks' = cs /\ pc' = (IF cs = <<>> THEN "done" ELSE "send")
  /\ idx' = 1
  /\ UNCHANGED <<env, file, file0, DISCORD_WEBHOOK, urls, old_products_state,
                 new_state, new_items_to_notify, restocked_to_notify,
                 processed_handles, i, fetched, posts, reads, writes, plan,
                 streak, shopStreak, raised,
                 arg_text, arg_limit>>

\* Fault: the loop of line 61 without the break of line 69.
AfterPostNoBreak(ok, k, n) == IF k < n THEN "send" ELSE "done"

\* Where notify_discord goes after the POST of chunk k of n: on to the next
\* chunk, or out of the loop (the break of line 69, or the last chunk).
AfterPost(ok, k, n) == IF ok /\ k < n THEN "send" ELSE "done"

\* Lines 61-66: the POST of chunk idx succeeds.
SendChunk ==
  /\ pc = "send"
  /\ posts' = Append(posts, [idx |-> idx, chunk |-> chunks[idx], ok |-> TRUE])
  /\ pc' = AfterPost(TRUE, idx, Len(chunks))
  /\ idx' = idx + 1
  /\ UNCHANGED <<env, file, file0, DISCORD_WEBHOOK, urls, old_products_state,
                 new_state, new_items_to_notify, restocked_to_notify,
                 processed_handles, i, chunks, fetched, reads, writes, plan,
                 streak, shopStreak, raised,
                 arg_text, arg_limit>>

\* Fault: a failed POST puts the state file back as the run found it.
SendFailedRollsBack ==
  /\ pc = "send"
  /\ posts' = Append(posts, [idx |-> idx, chunk |-> chunks[idx], ok |-> FALSE])
  /\ pc' = AfterPost(FALSE, idx, Len(chunks))
  /\ idx' = idx + 1
  /\ file' = file0
  /\ UNCHANGED <<env, file0, DISCORD_WEBHOOK, urls, old_products_state,
                 new_state, new_items_to_notify, restocked_to_notify,
                 processed_handles, i, chunks, fetched, reads, writes, plan,
                 streak, shopStreak, raised, arg_text, arg_limit>>

\* Lines 61-69: the POST of chunk idx fails (timeout, error status).
SendFailed ==
  /\ pc = "send"
  /\ posts' = Append(posts, [idx |-> idx, chunk |-> chunks[idx], ok |-> FALSE])
  /\ pc' = AfterPost(FALSE, idx, Len(chunks))
  /\ idx' = idx + 1
  /\ UNCHANGED <<env, file, file0, DISCORD_WEBHOOK, urls, old_products_state,
                 new_state, new_items_to_notify, restocked_to_notify,
                 processed_handles, i, chunks, fetched, reads, writes, plan,
                 streak, shopStreak, raised,
                 arg_text, arg_limit>>

----------------------------------------------------------------------------
(* What a run fetched and listed, read from its logs *)

\* The handle h is in the products array pl.
Returns(pl, h) == \E j \in DOMAIN pl : pl[j].handle = h

\* The calls of fetch_all_products of this run that failed.
FailedFetches == {k \in DOMAIN fetched : ~fetched[k].result.ok}

\* The calls of fetch_all_products of this run that returned the handle h.
ReturnedBy(h) ==
  {k \in DOMAIN fetched : fetched[k].result.ok /\ Returns(fetched[k].result.products, h)}

\* current_avail of h as call k fetched it.
FetchedAvail(k, h) ==
  \E j \in DOMAIN fetched[k].result.products :
     /\ fetched[k].result.products[j].handle = h
     /\ CurrentAvail(fetched[k].result.products[j])

\* Number of entries of a notification list that link to the handle h.
Count(list, h) == Cardinality({k \in DOMAIN list : list[k][2][2] = h})

\* Number of entries for h in the two notification lists of this run.
Listed(h) == Count(new_items_to_notify, h) + Count(restocked_to_notify, h)

\* This run fetched h from exactly one source, and available.
ObservedAvailable(h) ==
  /\ Cardinality(ReturnedBy(h)) = 1
  /\ \A k \in ReturnedBy(h) : FetchedAvail(k, h)

\* The storefront may have kept h available at every poll of this run: no
\* poll of the run saw it unavailable, and either a poll saw it available
\* or a poll failed (a failed fetch hides a storefront that lists h).
KeptAvailable(h) ==
  /\ \A k \in ReturnedBy(h) : FetchedAvail(k, h)
  /\ ReturnedBy(h) # {} \/ FailedFetches # {}

\* The counters of the streaks stop at 1: one entry more is one too many.
UpTo1(n) == IF n > 1 THEN 1 ELSE n

\* The scheduler starts main again: the saved state is the next run's
\* prior state.  The storefronts answer anything, or exactly as in the run
\* that ended (plan).  The counters of the streaks take the run's entries.
NextRun ==
  /\ pc = "done"
  /\ writes = 1
  /\ \E again \in BOOLEAN : plan' = IF again THEN fetched ELSE <<>>
  /\ streak' = [h \in Handles |->
                  IF ObservedAvailable(h) THEN UpTo1(streak[h] + Listed(h)) ELSE 0]
  /\ shopStreak' = [h \in Handles |->
                      IF KeptAvailable(h) THEN UpTo1(shopStreak[h] + Listed(h)) ELSE 0]
  /\ file0' = file
  /\ pc' = "main"
  /\ DISCORD_WEBHOOK' = None
  /\ urls' = <<>>
  /\ old_products_state' = EmptyDict
  /\ new_state' = EmptyDict
  /\ new_items_to_notify' = <<>>
  /\ restocked_to_notify' = <<>>
  /\ processed_handles' = {}
  /\ i' = 1
  /\ chunks' = <<>>
  /\ idx' = 1
  /\ fetched' = <<>>
  /\ posts' = <<>>
  /\ reads' = 0
  /\ writes' = 0
  /\ raised' = NoException
  /\ UNCHANGED <<env, file, arg_text, arg_limit>>

\* One run of main, from any state file and any configuration.
Next ==
  \/ ConfigError
  \/ Configure
  \/ LoadState
  \/ FetchFailed
  \/ FetchAndDiff
  \/ Reconcile
  \/ SaveState
  \/ NothingToReport
  \/ Report
  \/ SendChunk
  \/ SendFailed

Spec == Init /\ [][Next]_vars

\* Run after run of main, each from the state file the run before saved.
NextRuns == Next \/ NextRun

SpecRuns == Init /\ [][NextRuns]_vars

\* One run of main in which a storefront may also answer with a body or a
\* product record of an unexpected shape, from any state file.
NextFaults ==
  \/ Next
  \/ LoadStateRaises
  \/ FetchOddBody
  \/ DiffRaises
  \/ PriorRaises
  \/ ReconcileRaises

SpecFaults == InitFaults /\ [][NextFaults]_vars

\* The first run of an installation: no state file yet.
InitEmpty ==
  /\ env \in [DISCORD_WEBHOOK : {None, "", "hook"}, COLLECTION_URLS : UrlSettings]
  /\ file = [kind |-> "missing", products |-> EmptyDict]
  /\ file0 = file
  /\ FreshRun
  /\ plan = <<>>
  /\ streak = [h \in Handles |-> 0]
  /\ shopStreak = [h \in Handles |-> 0]
  /\ arg_text = <<>>
  /\ arg_limit = DiscordLimit

\* Run after run of main from the first run on: every state file is one
\* the program wrote.
SpecFromEmpty == InitEmpty /\ [][NextRuns]_vars

----------------------------------------------------------------------------
(* chunk_text_by_lines called by itself, on any text and limit *)

\* The lines a text is made of: lines of white space only (none or one
\* space) and lines of 1..MaxLineLen characters without white space.
TextLines ==
  {Line("blank", 0, <<0, 0>>, n) : n \in 0..1}
    \cup {Line("text", 0, <<0, 0>>, n) : n \in 1..MaxLineLen}

\* text.splitlines(keepends=True), line 46, of the texts of up to MaxLines
\* lines: every line ends with its line break, the last one with it or, if
\* it has characters, without.
Texts ==
  LET broken == UNION {[1..m -> TextLines] : m \in 0..MaxLines}
  IN broken \cup {NoFinalBreak(t) : t \in {u \in broken : u # <<>> /\ u[Len(u)].n > 0}}

Limits == 1..MaxLimit

InitChunk ==
  /\ env = [DISCORD_WEBHOOK |-> None, COLLECTION_URLS |-> <<Blank>>]
  /\ file = [kind |-> "missing", products |-> EmptyDict]
  /\ file0 = file
  /\ DISCORD_WEBHOOK = None
  /\ urls = <<>>
  /\ old_products_state = EmptyDict
  /\ new_state = EmptyDict
  /\ new_items_to_notify = <<>>
  /\ restocked_to_notify = <<>>
  /\ processed_handles = {}
  /\ i = 1
  /\ chunks = <<>>
  /\ idx = 1
  /\ fetched = <<>>
  /\ posts = <<>>
  /\ reads = 0
  /\ writes = 0
  /\ raised = NoException
  /\ plan = <<>>
  /\ streak = [h \in Handles |-> 0]
  /\ shopStreak = [h \in Handles |-> 0]
  /\ pc = "chunk"
  /\ arg_text \in Texts
  /\ arg_limit \in Limits

\* Lines 45-53: one call, chunks takes what it returns.
ChunkText ==
  /\ pc = "chunk"
  /\ chunks' = chunk_text_by_lines(arg_text, arg_limit)
  /\ pc' = "chunked"
  /\ UNCHANGED <<env, file, file0, DISCORD_WEBHOOK, urls, old_products_state,
                 new_state, new_items_to_notify, restocked_to_notify,
                 processed_handles, i, idx, fetched, posts, reads, writes, plan,
                 streak, shopStreak, raised, arg_text, arg_limit>>

NextChunk == ChunkText

SpecChunk == InitChunk /\ [][NextChunk]_vars

----------------------------------------------------------------------------
(* Properties *)

\* The environment gives main a webhook and at least one source.
Configured ==
  Truthy(env.DISCORD_WEBHOOK) /\ \E k \in DOMAIN env.COLLECTION_URLS : env.COLLECTION_URLS[k] # Blank

\* The run passed the configuration check and has saved its state.
Saved == writes = 1

\* The run has ended after saving its state.
Ran == pc = "done" /\ Saved

\* The state the run saved.
saved_state == file.products

\* Some successful fetch of this run returned h available.
SomeFetchedAvailable(h) == \E k \in ReturnedBy(h) : FetchedAvail(k, h)

\* Every successful fetch of this run that returned h returned it available,
\* and there is one.
AllFetchedAvailable(h) ==
  ReturnedBy(h) # {} /\ \A k \in ReturnedBy(h) : FetchedAvail(k, h)

\* Every successful fetch of this run that returned h returned it
\* unavailable, and there is one.
AllFetchedUnavailable(h) ==
  ReturnedBy(h) # {} /\ \A k \in ReturnedBy(h) : ~FetchedAvail(k, h)

\* C1 as stated: a product the storefront keeps available at every poll of
\* the runs i..j, whether the fetches succeed or fail, gets at most one
\* entry of a notification list in these runs.
C1_OncePerStorefrontStreak ==
  Ran => \A h \in Handles : KeptAvailable(h) => shopStreak[h] + Listed(h) <= 1

\* C1 amended: a product that exactly one source returns, by a successful
\* fetch and available, in every run of i..j gets at most one entry of a
\* notification list in these runs.
C1_OncePerObservedStreak ==
  Ran => \A h \in Handles : ObservedAvailable(h) => streak[h] + Listed(h) <= 1

\* A later run of a streak that has had its entry: the product is fetched
\* available again and is not listed again.
C1_Witness ==
  Ran /\ \E h \in Handles : ObservedAvailable(h) /\ streak[h] = 1 /\ Listed(h) = 0

\* C2 as stated: a handle absent from the prior state that some source
\* returns available is once in the new-items list, not in the restocked
\* list, and saved as notified, also when several sources return it.
C2_NewListedOnceAnySources ==
  Ran => \A h \in Handles :
           h \notin DOMAIN old_products_state /\ SomeFetchedAvailable(h)
           => /\ Count(new_items_to_notify, h) = 1
              /\ Count(restocked_to_notify, h) = 0
              /\ saved_state[h].notified_for_available

\* C2 amended: a handle absent from the prior state that exactly one
\* successfully fetched source returns, available, is once in the new-items
\* list, not in the restocked list, and saved as notified.
C2_NewListedOnce ==
  Ran => \A h \in Handles :
           h \notin DOMAIN old_products_state /\ ObservedAvailable(h)
           => /\ Count(new_items_to_notify, h) = 1
              /\ Count(restocked_to_notify, h) = 0
              /\ saved_state[h].notified_for_available

\* A run that found an unknown handle available at one source, next to a
\* source that did not return it.
C2_Witness ==
  Ran /\ \E h \in Handles :
           /\ h \notin DOMAIN old_products_state
           /\ ObservedAvailable(h)
           /\ Len(fetched) > 1

\* The sources that return the same handle in this run return it with the
\* same availability.
SourcesAgree ==
  \A h \in Handles : \A k1, k2 \in ReturnedBy(h) : FetchedAvail(k1, h) = FetchedAvail(k2, h)

\* C3 as stated: a run that gets the fetch results of the run before it, and
\* that run's saved state as prior state, lists nothing, also when sources
\* return one handle with different availability.
C3_SecondRunListsNothingAnySources ==
  Ran /\ plan # <<>> => new_items_to_notify = <<>> /\ restocked_to_notify = <<>>

\* C3 amended: a run that gets the fetch results of the run before it, and
\* that run's saved state as prior state, lists nothing, provided the
\* sources that return one handle return it with the same availability.
C3_SecondRunListsNothing ==
  Ran /\ plan # <<>> /\ SourcesAgree
  => new_items_to_notify = <<>> /\ restocked_to_notify = <<>>

\* A second run on the same results in which two sources return one handle
\* available, which the run before has flagged as notified.
C3_Witness ==
  /\ Ran
  /\ plan # <<>>
  /\ SourcesAgree
  /\ \E h \in DOMAIN old_products_state :
       /\ Cardinality(ReturnedBy(h)) > 1
       /\ AllFetchedAvailable(h)
       /\ old_products_state[h].notified_for_available

\* C4: a handle one successfully fetched source returns available, known as
\* unavailable and not notified, is once in the restocked list, not in the
\* new-items list, and saved as available and notified.
C4_RestockListedOnce ==
  Ran => \A h \in DOMAIN old_products_state :
           /\ ~old_products_state[h].available
           /\ ~old_products_state[h].notified_for_available
           /\ ObservedAvailable(h)
           => /\ Count(restocked_to_notify, h) = 1
              /\ Count(new_items_to_notify, h) = 0
              /\ saved_state[h].available
              /\ saved_state[h].notified_for_available

\* A run that found a known, unavailable, not notified handle available.
C4_Witness ==
  Ran /\ \E h \in DOMAIN old_products_state :
           /\ ~old_products_state[h].available
           /\ ~old_products_state[h].notified_for_available
           /\ ObservedAvailable(h)

\* C5: in every state a run has written, notified_for_available implies
\* available for every handle, whatever the prior state and the fetches;
\* a product fetched unavailable is saved as not notified.
C5_NotifiedOnlyIfAvailable ==
  Saved =>
    /\ \A h \in DOMAIN saved_state :
         saved_state[h].notified_for_available => saved_state[h].available
    /\ \A h \in Handles :
         AllFetchedUnavailable(h) => ~saved_state[h].notified_for_available

\* A run from a prior state that breaks the implication (notified, not
\* available) that fetched the handle unavailable, next to a failed fetch.
C5_Witness ==
  Ran /\ \E h \in DOMAIN old_products_state :
           /\ old_products_state[h].notified_for_available
           /\ ~old_products_state[h].available
           /\ AllFetchedUnavailable(h)
           /\ FailedFetches # {}

\* C6: a product known as notified and fetched available is in neither
\* list, whatever its prior availability, and is saved as notified.
C6_NotifiedNotListedAgain ==
  Ran => \A h \in DOMAIN old_products_state :
           old_products_state[h].notified_for_available /\ AllFetchedAvailable(h)
           => /\ Listed(h) = 0
              /\ saved_state[h].notified_for_available

\* A run that fetched available a product known as notified and not
\* available: the restock transition holds and the flag suppresses it.
C6_Witness ==
  Ran /\ \E h \in DOMAIN old_products_state :
           /\ old_products_state[h].notified_for_available
           /\ ~old_products_state[h].available
           /\ AllFetchedAvailable(h)

\* C7: a handle of the prior state that no successful fetch of the run
\* returned is saved as unavailable and not notified with its prior title,
\* and is in neither list.
C7_NotFoundCarriedOver ==
  Ran => \A h \in DOMAIN old_products_state :
           ReturnedBy(h) = {}
           => /\ saved_state[h] = [title |-> old_products_state[h].title,
                                   available |-> FALSE,
                                   notified_for_available |-> FALSE]
              /\ Listed(h) = 0

\* A run in which one source failed and the other left out a product known
\* as available and notified.
C7_Witness ==
  Ran /\ \E h \in DOMAIN old_products_state :
           /\ old_products_state[h].available
           /\ old_products_state[h].notified_for_available
           /\ ReturnedBy(h) = {}
           /\ FailedFetches # {}
           /\ FailedFetches # DOMAIN fetched

\* The handles the successful fetches of this run returned so far.
ReturnedHandles == {h \in Handles : ReturnedBy(h) # {}}

\* The entry e of a notification list comes from a successful fetch.
FromSuccessfulFetch(e) ==
  \E k \in DOMAIN fetched :
     /\ fetched[k].result.ok
     /\ fetched[k].url = e[2][1]
     /\ Returns(fetched[k].result.products, e[2][2])

\* C8: a failed fetch is not fatal: the failed sources add no handle to
\* the processed set and no entry to the lists, every source of the list is
\* fetched once and in order and the returned products are diffed, and the
\* run goes on to save its state exactly once, also when every fetch fails
\* (in every position but "done" main has a next step: the loops stand on
\* an element, the other positions have no guard).
C8_FetchFailureNotFatal ==
  Configured =>
    /\ processed_handles = ReturnedHandles
    /\ pc = "fetch" => DOMAIN new_state = ReturnedHandles
    /\ \A k \in DOMAIN new_items_to_notify : FromSuccessfulFetch(new_items_to_notify[k])
    /\ \A k \in DOMAIN restocked_to_notify : FromSuccessfulFetch(restocked_to_notify[k])
    /\ \A k \in DOMAIN fetched : fetched[k].url = urls[k]
    /\ Len(fetched) <= Len(urls)
    /\ pc \in {"reconcile", "save", "report", "send", "done"} => Len(fetched) = Len(urls)
    /\ pc \in {"main", "load", "fetch", "reconcile", "save"} => writes = 0
    /\ pc \in {"report", "send", "done"} => writes = 1
    /\ pc = "fetch" => i \in DOMAIN urls
    /\ pc = "send" => idx \in DOMAIN chunks
    /\ pc \in {"main", "load", "fetch", "reconcile", "save", "report", "send", "done"}

\* A run that ended after its first fetch failed: the second source was
\* fetched and its products diffed, and the state was saved.
C8_Witness ==
  /\ Ran
  /\ Len(fetched) > 1
  /\ ~fetched[1].result.ok
  /\ fetched[2].result.ok
  /\ processed_handles # {}

\* C9: without DISCORD_WEBHOOK or without a non-empty entry of
\* COLLECTION_URLS the run ends without a fetch, a POST, a read or a write of
\* the state file, which stays as it was.
C9_ConfigErrorNoSideEffect ==
  ~Configured =>
    /\ pc \in {"main", "done"}
    /\ fetched = <<>>
    /\ posts = <<>>
    /\ reads = 0
    /\ writes = 0
    /\ file = file0

\* A run that ended on a missing webhook although sources are configured and
\* the state file holds products.
C9_Witness ==
  /\ pc = "done"
  /\ ~Configured
  /\ ~Truthy(env.DISCORD_WEBHOOK)
  /\ urls # <<>>
  /\ file.kind = "good"
  /\ file.products # EmptyDict

\* C10: the chunks are posted in chunk order, each once, and nothing is
\* posted after a failed POST: when the POST of chunk k fails, the POSTs of
\* the run are those of the chunks 1..k.
C10_StopsAtFirstFailedChunk ==
  /\ Len(posts) <= Len(chunks)
  /\ \A k \in DOMAIN posts :
       /\ posts[k].idx = k
       /\ posts[k].chunk = chunks[k]
       /\ k < Len(posts) => posts[k].ok
  /\ pc = "send" => idx = Len(posts) + 1 /\ \A k \in DOMAIN posts : posts[k].ok
  /\ pc = "done" /\ chunks # <<>> =>
       \/ Len(posts) = Len(chunks)
       \/ ~posts[Len(posts)].ok

\* A message of three chunks whose second POST failed: the third chunk was
\* not posted.
C10_Witness ==
  /\ pc = "done"
  /\ Len(chunks) = 3
  /\ Len(posts) = 2
  /\ posts[1].ok
  /\ ~posts[2].ok

----------------------------------------------------------------------------
(* Properties of chunk_text_by_lines *)

\* Number of characters of a chunk.
ChunkLen(chunk) == StrLen(chunk)

\* The line b of a chunk is the line a of the text, whose line break
\* strip() may have taken.
SameLine(a, b) == a.tag = b.tag /\ a.n = b.n

\* C11: every chunk returned has at most limit characters or is one line
\* of the text that alone has more than limit characters, and every line of
\* a chunk is a whole line of the text: no chunk ends inside a line.
C11_ChunkWithinLimitOrOneLine ==
  pc = "chunked" =>
    \A j \in DOMAIN chunks :
       /\ \/ ChunkLen(chunks[j]) <= arg_limit
          \/ /\ Len(chunks[j]) = 1
             /\ \E k \in DOMAIN arg_text :
                  SameLine(arg_text[k], chunks[j][1]) /\ LineLen(arg_text[k]) > arg_limit
       /\ \A m \in DOMAIN chunks[j] :
            \E k \in DOMAIN arg_text : SameLine(arg_text[k], chunks[j][m])

\* A text chunked into a chunk of two lines within the limit and a chunk
\* that is one line longer than the limit.
C11_Witness ==
  /\ pc = "chunked"
  /\ \E j \in DOMAIN chunks : Len(chunks[j]) = 2 /\ ChunkLen(chunks[j]) <= arg_limit
  /\ \E j \in DOMAIN chunks : Len(chunks[j]) = 1 /\ ChunkLen(chunks[j]) > arg_limit

----------------------------------------------------------------------------
(* Properties of the runs with unexpected shapes *)

\* The lines of main and fetch_all_products that read the response.
ResponseLines == {40, 97, 98, 99}

\* C12: a 2xx response of an unexpected shape counts as no products or as
\* a failed fetch: no exception raised on reading a response leaves main,
\* and past the loop over the sources every source has been gone through
\* and main is on its way to the save or past it.
C12_UnexpectedShapeNotFatal ==
  Configured =>
    /\ raised.line \notin ResponseLines
    /\ pc \notin {"main", "load", "fetch"} =>
         /\ Len(fetched) = Len(urls)
         /\ pc \in {"reconcile", "save", "report", "send", "done"}

\* The first source answered with a product record without handle: the
\* KeyError of line 98 ended main before the second source was fetched and
\* before the save; the state file is as it was.
C12_Witness ==
  /\ pc = "crashed"
  /\ raised = Exception("KeyError", 98)
  /\ Len(fetched) = 1
  /\ Len(urls) > 1
  /\ writes = 0
  /\ file = file0

\* The lines of load_state and main that read the state file or the prior
\* state taken from it.
StateLines == {14, 15, 18, 82, 106, 145}

\* C13: whatever the state file is at the start, the run is not aborted:
\* no exception raised on reading the file or the prior state leaves main,
\* a file that is not a good state gives the empty prior state, and when
\* the run has ended it has saved and has listed as new every product it
\* fetched available.
C13_StateFileNotFatal ==
  Configured =>
    /\ raised.line \notin StateLines
    /\ file0.kind # "good" /\ pc \notin {"main", "load"} =>
         /\ old_products_state = EmptyDict
         /\ pc \in {"fetch", "reconcile", "save", "report", "send", "done"}
         /\ pc = "done" =>
              /\ Saved
              /\ \A h \in Handles :
                   SomeFetchedAvailable(h) => Count(new_items_to_notify, h) >= 1

\* A state file whose products value is an array: the first product fetched
\* ended main with the AttributeError of line 106, before the save.
C13_Witness ==
  /\ pc = "crashed"
  /\ raised = Exception("AttributeError", 106)
  /\ file0.kind = "products_not_mapping"
  /\ fetched # <<>>
  /\ writes = 0
  /\ file = file0

----------------------------------------------------------------------------
(* Properties of the order of a run's events *)

\* C14: in a run that passed the configuration check the state file is
\* read once, before the first fetch; it is written once, when every source
\* has been gone through and before the first POST; and nothing is posted
\* when both notification lists are empty.
C14_EventsOrdered ==
  Configured =>
    /\ reads <= 1 /\ writes <= 1
    /\ fetched # <<>> => reads = 1
    /\ pc \in {"fetch", "reconcile", "save"} => reads = 1 /\ writes = 0
    /\ writes = 1 =>
         /\ Len(fetched) = Len(urls)
         /\ pc \in {"report", "send", "done"}
    /\ pc = "done" /\ raised = NoException => writes = 1
    /\ posts # <<>> =>
         /\ writes = 1
         /\ ~(new_items_to_notify = <<>> /\ restocked_to_notify = <<>>)
    /\ new_items_to_notify = <<>> /\ restocked_to_notify = <<>> => posts = <<>>

\* A run that ended after reading the state, fetching two sources, saving
\* and posting.
C14_Witness ==
  /\ pc = "done"
  /\ reads = 1
  /\ Len(fetched) = 2
  /\ writes = 1
  /\ posts # <<>>

----------------------------------------------------------------------------
(* Properties of a handle that several sources return *)

\* The last call of fetch_all_products of this run that returned h.
LastReturn(h) == CHOOSE k \in ReturnedBy(h) : \A j \in ReturnedBy(h) : j <= k

\* The title call k fetched for h.
FetchedTitle(k, h) ==
  LET pl == fetched[k].result.products
  IN pl[CHOOSE j \in DOMAIN pl : pl[j].handle = h].title

\* The list holds the entry of title and link.
InList(list, e) == \E k \in DOMAIN list : list[k] = e

\* C15: for a handle that more than one successful fetch of the run
\* returned, the saved state has the entry of the last of them in source
\* order: its title, its availability, and notified_for_available as the
\* prior state and that availability give it; and every occurrence is
\* listed as new or restocked exactly as the prior state and its own
\* availability say, whatever the earlier sources of the run returned.
C15_LastSourceWins ==
  Ran =>
    \A h \in Handles :
       Cardinality(ReturnedBy(h)) > 1 =>
         LET old == old_products_state
             known == h \in DOMAIN old
             last == LastReturn(h)
         IN /\ h \in DOMAIN saved_state
            /\ saved_state[h].title = FetchedTitle(last, h)
            /\ saved_state[h].available = FetchedAvail(last, h)
            /\ saved_state[h].notified_for_available =
                 (/\ FetchedAvail(last, h)
                  /\ \/ ~known
                     \/ ~old[h].available
                     \/ old[h].notified_for_available)
            /\ \A k \in ReturnedBy(h) :
                 LET e == Entry(FetchedTitle(k, h), fetched[k].url, h)
                 IN /\ InList(new_items_to_notify, e) = (FetchedAvail(k, h) /\ ~known)
                    /\ InList(restocked_to_notify, e) =
                         (/\ FetchedAvail(k, h)
                          /\ known
                          /\ ~old[h].available
                          /\ ~old[h].notified_for_available)

\* A handle unknown to the prior state that the first source returned
\* available and the second one unavailable: it is listed as new and saved
\* unavailable, with the title of the second source.
C15_Witness ==
  /\ Ran
  /\ \E h \in Handles :
       /\ ReturnedBy(h) = {1, 2}
       /\ h \notin DOMAIN old_products_state
       /\ FetchedAvail(1, h)
       /\ ~FetchedAvail(2, h)
       /\ Count(new_items_to_notify, h) = 1
       /\ ~saved_state[h].available
       /\ saved_state[h].title = TitleAt(2)

----------------------------------------------------------------------------
(* Properties of the set of persisted handles *)

\* C16: the handles of the state a run saves are the handles of the state
\* file it started from and the handles its successful fetches returned;
\* and from run to run no step takes a handle out of the state file.
C16_HandlesNeverDropped ==
  /\ [](Ran => DOMAIN saved_state = DOMAIN file0.products \cup ReturnedHandles)
  /\ [][DOMAIN file.products \subseteq DOMAIN file'.products]_vars

\* A later run: a handle an earlier run fetched and saved is returned by no
\* source of this run, one of which answered, and is still in the saved
\* state.
C16_Witness ==
  /\ Ran
  /\ \E k \in DOMAIN fetched : fetched[k].result.ok
  /\ \E h \in DOMAIN file0.products :
       /\ file0.products[h].title # OldTitle
       /\ ReturnedBy(h) = {}
       /\ h \in DOMAIN saved_state

----------------------------------------------------------------------------
(* Properties of the runs from the first run on *)

\* C17: from the empty state on, a run that fetched a handle from exactly
\* one source, available, with the handle absent from its prior state or
\* unavailable in it, lists the handle (once); and no state the program
\* saved holds an entry that is notified and not available, the one prior
\* entry for which lines 126 and 132 suppress such a listing.
C17_NoRestockMissed ==
  /\ \A h \in DOMAIN file.products :
       file.products[h].notified_for_available => file.products[h].available
  /\ Ran =>
       \A h \in Handles :
          /\ ObservedAvailable(h)
          /\ h \in DOMAIN file0.products => ~file0.products[h].available
          => Listed(h) = 1

\* A later run lists as restocked a handle that its prior state, saved by
\* the run before, holds unavailable.
C17_Witness ==
  /\ Ran
  /\ \E h \in DOMAIN file0.products :
       /\ ~file0.products[h].available
       /\ ObservedAvailable(h)
       /\ Count(restocked_to_notify, h) = 1

----------------------------------------------------------------------------
(* Properties of the saved state and the delivery *)

\* The loop of line 89 over the logged calls of fetch_all_products: the
\* failed ones are skipped, the products of the others are diffed.
RECURSIVE DiffCalls(_, _, _)
DiffCalls(old, acc, calls) ==
  IF calls = <<>> THEN acc
  ELSE DiffCalls(old,
                 IF Head(calls).result.ok
                 THEN DiffSource(old, acc, Head(calls).url, Head(calls).result.products)
                 ELSE acc,
                 Tail(calls))

\* The state lines 80-154 build from the state file f and the calls.
NextState(f, calls) ==
  LET old == load_state(f).products
      acc == DiffCalls(old, [products |-> EmptyDict, new_items |-> <<>>,
                             restocked |-> <<>>, processed |-> {}], calls)
  IN CarryOver(old, acc.products, acc.processed)

\* The message of the run was not delivered in full: a POST failed.
Undelivered == \E k \in DOMAIN posts : ~posts[k].ok

\* C18 as stated: when the run has ended, the state file holds what the
\* state file the run started from and the results of its fetches give,
\* whatever was posted and however the POSTs ended; and every handle the
\* run listed is saved as notified.
C18_SavedNotifiedWhateverListed ==
  Ran =>
    /\ saved_state = NextState(file0, fetched)
    /\ \A h \in Handles : Listed(h) > 0 => saved_state[h].notified_for_available

\* C18 amended: when the run has ended, the state file holds what the
\* state file the run started from and the results of its fetches give,
\* whatever was posted and however the POSTs ended; a handle the run listed
\* and fetched available from exactly one source is saved as notified, also
\* when a POST failed; and a run that finds a handle saved as available and
\* notified, and fetches it available from exactly one source, does not
\* list it.
C18_SavedWhateverDelivered ==
  Ran =>
    /\ saved_state = NextState(file0, fetched)
    /\ \A h \in Handles :
         ObservedAvailable(h) =>
           /\ Listed(h) > 0 => saved_state[h].notified_for_available
           /\ /\ h \in DOMAIN file0.products
              /\ file0.products[h].available
              /\ file0.products[h].notified_for_available
              => Listed(h) = 0

\* A run whose first POST failed: the handle it listed is saved as
\* notified.
C18_Witness ==
  /\ Ran
  /\ Undelivered
  /\ ~posts[1].ok
  /\ \E h \in Handles :
       /\ ObservedAvailable(h)
       /\ Listed(h) = 1
       /\ saved_state[h].notified_for_available

----------------------------------------------------------------------------
(* Properties of the lines of the chunks *)

\* The lines of the chunks, in chunk order.
RECURSIVE ChunkLines(_)
ChunkLines(chunks_) ==
  IF chunks_ = <<>> THEN <<>> ELSE Head(chunks_) \o ChunkLines(Tail(chunks_))

\* C19: no chunk returned is empty, and the lines of the chunks in chunk
\* order are the lines of the text in their order, each once.
C19_NoEmptyChunkAllLines ==
  pc = "chunked" =>
    /\ \A j \in DOMAIN chunks : chunks[j] # <<>>
    /\ Len(ChunkLines(chunks)) = Len(arg_text)
    /\ \A k \in DOMAIN arg_text :
         k \in DOMAIN ChunkLines(chunks) => SameLine(arg_text[k], ChunkLines(chunks)[k])

\* A text whose first line alone exceeds the limit: the first chunk
\* returned is empty.
C19_Witness ==
  /\ pc = "chunked"
  /\ arg_text # <<>>
  /\ LineLen(arg_text[1]) > arg_limit
  /\ ~IsBlank(arg_text[1])
  /\ chunks[1] = <<>>

====
